---- MODULE Spec2Model ----
(***************************************************************************)
(* Sonora playback core: the streaming source (core/playback/decoder.rs),  *)
(* the playback engine (core/playback/engine.rs) and the command channel   *)
(* (core/playback/mod.rs).                                                 *)
(*                                                                         *)
(* Units: positions and offsets are milliseconds; volumes are tenths       *)
(* (10 is 1.0); Option<u64> None is -1; a pulled sample is the 1-based     *)
(* index of the sample among all samples the decoder produced, and None    *)
(* is 0; NaN is the f32 NaN, a number outside every range.  Offsets are    *)
(* far below 2^64.                                                         *)
(***************************************************************************)
EXTENDS Integers, Sequences, FiniteSets, TLC

\* ------------------------------------------------------------ bounds
MaxQueue == 1
MaxPackets == 3
MaxSkipMs == 2
MaxSent == 3
MaxEvents == 3
MaxBatch == 2
MaxPending == 1
MaxActs == 2

\* --------------------------------------------------------- constants
DefaultSampleRate == 44100
DefaultChannels == 2
TICK_MS == 200
VolOne == 10
NaN == 99

None == -1
NoSample == 0
NoPath == "none"

Min(a, b) == IF a < b THEN a ELSE b
Max(a, b) == IF a > b THEN a ELSE b

\* ------------------------------------------------- decode backend
\* A packet is what format.next_packet() and decoder.decode() make of
\* it: k is the outcome, n the number of interleaved samples of a
\* decoded buffer, sr and ch its signal spec.
Pkt(k, n, sr, ch) == [k |-> k, n |-> n, sr |-> sr, ch |-> ch]
Ok(n, sr, ch) == Pkt("ok", n, sr, ch)
Bad(k) == Pkt(k, 0, 0, 0)

\* ------------------------------------------------ SymphoniaSource
\* fatal: a refill has returned Err.  decoded: samples decoded so far.
\* resets: calls of decoder.reset().  dec: the decoder in use.
SourceStruct(pk, dec, skip_ms) ==
    [ pk |-> pk, dec |-> dec,
      sample_rate |-> DefaultSampleRate, channels |-> DefaultChannels,
      out |-> <<>>, out_pos |-> 0,
      skip_ms |-> skip_ms, skip_samples_remaining |-> 0,
      skip_initialized |-> FALSE, ended |-> FALSE,
      fatal |-> FALSE, decoded |-> 0, resets |-> 0 ]

NoSrc == SourceStruct(<<>>, "none", 0)

CeilDiv(a, b) == (a + b - 1) \div b

\* ensure_skip_initialized without the skip_initialized guard: the skip
\* is converted again on every refill.
ensure_skip_initialized_Again(s) ==
    IF s.skip_ms = 0
    THEN [s EXCEPT !.skip_initialized = TRUE, !.skip_samples_remaining = 0]
    ELSE [s EXCEPT !.skip_initialized = TRUE,
                   !.skip_samples_remaining =
                       CeilDiv(s.skip_ms * s.sample_rate, 1000) * s.channels]

ensure_skip_initialized(s) ==
    IF s.skip_initialized THEN s
    ELSE IF s.skip_ms = 0
         THEN [s EXCEPT !.skip_initialized = TRUE, !.skip_samples_remaining = 0]
         ELSE [s EXCEPT !.skip_initialized = TRUE,
                        !.skip_samples_remaining =
                            CeilDiv(s.skip_ms * s.sample_rate, 1000) * s.channels]

apply_skip_to_current_buffer(s) ==
    IF s.skip_samples_remaining = 0 THEN s
    ELSE LET skip_now == Min(s.skip_samples_remaining, Len(s.out))
         IN [s EXCEPT !.out_pos = skip_now,
                      !.skip_samples_remaining = @ - skip_now]

\* The loop of fill_out_buffer; the end of the packet list is the
\* reader's I/O end-of-stream error.
RECURSIVE FillLoop(_)
FillLoop(s) ==
    IF s.pk = <<>> THEN [s |-> [s EXCEPT !.ended = TRUE], err |-> FALSE]
    ELSE
    LET p == Head(s.pk)
        r == [s EXCEPT !.pk = Tail(s.pk)]
    IN CASE p.k = "reset" -> FillLoop([r EXCEPT !.resets = @ + 1])
         [] p.k = "readfatal" -> [s |-> [r EXCEPT !.fatal = TRUE], err |-> TRUE]
         [] p.k = "other" -> FillLoop(r)
         [] p.k = "decio" -> [s |-> [r EXCEPT !.ended = TRUE], err |-> FALSE]
         [] p.k = "corrupt" -> FillLoop(r)
         [] p.k = "decreset" -> FillLoop([r EXCEPT !.resets = @ + 1])
         [] p.k = "decfatal" -> [s |-> [r EXCEPT !.fatal = TRUE], err |-> TRUE]
         [] OTHER ->
              IF p.n = 0 THEN [s |-> [r EXCEPT !.ended = TRUE], err |-> FALSE]
              ELSE [s |-> apply_skip_to_current_buffer(ensure_skip_initialized(
                            [r EXCEPT !.sample_rate = p.sr, !.channels = p.ch,
                                      !.out = [i \in 1..p.n |-> r.decoded + i],
                                      !.out_pos = 0,
                                      !.decoded = @ + p.n])),
                    err |-> FALSE]

fill_out_buffer(s) ==
    IF s.ended THEN [s |-> s, err |-> FALSE]
    ELSE FillLoop([s EXCEPT !.out = <<>>, !.out_pos = 0])

\* SymphoniaSource::new: primes once and drops the refill's result.
SourceNew(pk, dec, skip_ms) == fill_out_buffer(SourceStruct(pk, dec, skip_ms)).s

\* The tail of next() without out_pos += 1.
TakeSample_NoAdvance(s) ==
    [ s |-> s,
      val |-> IF s.out_pos < Len(s.out) THEN s.out[s.out_pos + 1] ELSE NoSample ]

\* The tail of next(): out.get(out_pos).copied(), then out_pos += 1.
TakeSample(s) ==
    [ s |-> [s EXCEPT !.out_pos = @ + 1],
      val |-> IF s.out_pos < Len(s.out) THEN s.out[s.out_pos + 1] ELSE NoSample ]

SourceNext(s) ==
    IF s.out_pos >= Len(s.out)
    THEN IF s.ended THEN [s |-> s, val |-> NoSample]
         ELSE LET f == fill_out_buffer(s)
              IN IF f.err THEN [s |-> [f.s EXCEPT !.ended = TRUE], val |-> NoSample]
                 ELSE IF f.s.out_pos >= Len(f.s.out) /\ f.s.ended
                      THEN [s |-> f.s, val |-> NoSample]
                      ELSE TakeSample(f.s)
    ELSE TakeSample(s)

\* ------------------------------------------------------- the files
\* What the decode backend finds at a path: whether it opens and probes,
\* the default track's time base and frame count, and its packets.
File(exists, time_base, n_frames, sr, packets) ==
    [ exists |-> exists, time_base |-> time_base, n_frames |-> n_frames,
      sr |-> sr, packets |-> packets ]

Paths == {"a.mp3", "b.ogg", "missing"}

Files(path) ==
    CASE path = "a.mp3" ->
           File(TRUE, TRUE, 4, 1000, <<Ok(2, 1000, 1), Ok(2, 1000, 1)>>)
      [] path = "b.ogg" ->
           File(TRUE, FALSE, None, 1000, <<Ok(2, 1000, 2), Bad("decfatal")>>)
      [] OTHER -> File(FALSE, FALSE, None, 0, <<>>)

\* What the environment decides during one open: whether the file still
\* opens and probes, and where the container seek lands (the number of
\* packets it skips), -1 when the seek fails.
IOs(f) == [open_ok : BOOLEAN, seek : {-1} \cup (0..Len(f.packets))]

RoundDiv(a, b) == (2 * a + b) \div (2 * b)

\* time_to_ms(tb.calc_time(ts)) for a time base of one frame.
TsToMs(ts, sr) == RoundDiv(ts * 1000, sr)

duration_from_params(f) ==
    IF f.time_base /\ f.n_frames # None THEN TsToMs(f.n_frames, f.sr) ELSE None

RECURSIVE FramesIn(_)
FramesIn(pk) ==
    IF pk = <<>> THEN 0
    ELSE (IF Head(pk).k = "ok" THEN Head(pk).n \div Head(pk).ch ELSE 0)
         + FramesIn(Tail(pk))

Landed(f, i) == SubSeq(f.packets, i + 1, Len(f.packets))
ActualTs(f, i) == FramesIn(SubSeq(f.packets, 1, i))

OpenErr == [ok |-> FALSE, src |-> NoSrc, duration_ms |-> None]

\* open_source_at_ms leaving the whole offset to the decode-skip even
\* when the container seek has landed.
open_source_at_ms_FullSkip(path, start_ms, io) ==
    LET f == Files(path) IN
    IF ~f.exists \/ ~io.open_ok THEN OpenErr
    ELSE
    LET seeked == io.seek # -1
        pk == IF start_ms > 0 /\ seeked THEN Landed(f, io.seek) ELSE f.packets
        dec == IF start_ms > 0 /\ seeked THEN "remade" ELSE "first"
    IN [ ok |-> TRUE, src |-> SourceNew(pk, dec, start_ms),
         duration_ms |-> duration_from_params(f) ]

\* open_source_at_ms returning the container seek's error.
open_source_at_ms_SeekErr(path, start_ms, io) ==
    LET f == Files(path) IN
    IF ~f.exists \/ ~io.open_ok \/ (start_ms > 0 /\ io.seek = -1) THEN OpenErr
    ELSE
    LET actual_ms == TsToMs(ActualTs(f, io.seek), f.sr)
        skip_ms == IF start_ms = 0 THEN 0
                   ELSE IF f.time_base THEN Max(0, start_ms - actual_ms)
                   ELSE 0
        pk == IF start_ms > 0 THEN Landed(f, io.seek) ELSE f.packets
        dec == IF start_ms > 0 THEN "remade" ELSE "first"
    IN [ ok |-> TRUE, src |-> SourceNew(pk, dec, skip_ms),
         duration_ms |-> duration_from_params(f) ]

open_source_at_ms(path, start_ms, io) ==
    LET f == Files(path) IN
    IF ~f.exists \/ ~io.open_ok THEN OpenErr
    ELSE
    LET seeked == io.seek # -1
        actual_ms == TsToMs(ActualTs(f, io.seek), f.sr)
        skip_ms == IF start_ms = 0 THEN 0
                   ELSE IF ~seeked THEN start_ms
                   ELSE IF f.time_base THEN Max(0, start_ms - actual_ms)
                   ELSE 0
        pk == IF start_ms > 0 /\ seeked THEN Landed(f, io.seek) ELSE f.packets
        dec == IF start_ms > 0 /\ seeked THEN "remade" ELSE "first"
    IN [ ok |-> TRUE, src |-> SourceNew(pk, dec, skip_ms),
         duration_ms |-> duration_from_params(f) ]

\* ------------------------------------------------------ audio sink
\* rodio::Sink as the engine uses it: queued is "the appended source has
\* not yet returned None", so Sink::empty() is ~queued; pos counts the
\* samples played, from which get_pos() derives the elapsed time.
SinkStruct(live, paused, vol, pos, queued, src) ==
    [ live |-> live, paused |-> paused, volume |-> vol, pos |-> pos,
      queued |-> queued, src |-> src ]

NoSink == SinkStruct(FALSE, FALSE, 0, 0, FALSE, NoSrc)
connect_new == SinkStruct(TRUE, FALSE, VolOne, 0, FALSE, NoSrc)
sink_empty(k) == ~k.queued
get_pos_ms(k) == (k.pos * 1000) \div (k.src.sample_rate * k.src.channels)

\* ---------------------------------------------------------- events
Ev(t) == [t |-> t, path |-> NoPath, duration_ms |-> None, ms |-> 0]
Started(path, duration_ms, start_ms) ==
    [t |-> "Started", path |-> path, duration_ms |-> duration_ms, ms |-> start_ms]
Position(position_ms) ==
    [t |-> "Position", path |-> NoPath, duration_ms |-> None, ms |-> position_ms]

\* -------------------------------------------------------- commands
Cmd(c, path, ms, v) == [c |-> c, path |-> path, ms |-> ms, v |-> v]
SeekOffsets == {0, 3, 5}
VolumeInputs == {-2, 5, 15, NaN}
Commands ==
    {Cmd("PlayFile", p, 0, 0) : p \in Paths}
    \cup {Cmd(c, NoPath, 0, 0) : c \in {"Pause", "Resume", "Stop", "Shutdown"}}
    \cup {Cmd("Seek", NoPath, ms, 0) : ms \in SeekOffsets}
    \cup {Cmd("SetVolume", NoPath, 0, v) : v \in VolumeInputs}

\* ------------------------------------------------- PlaybackEngine
\* stream: the sinks connected to the output stream's mixer and not
\* stopped.
EngineNew ==
    [ stream |-> 0, sink |-> NoSink, current_path |-> NoPath,
      current_duration_ms |-> None, base_position_ms |-> 0, volume |-> VolOne,
      ended_emitted |-> FALSE ]

\* stop_internal leaving current_path as it was.
stop_internal_KeepPath(e) ==
    [e EXCEPT !.stream = IF e.sink.live THEN @ - 1 ELSE @,
              !.sink = NoSink,
              !.current_duration_ms = None, !.base_position_ms = 0,
              !.ended_emitted = FALSE]

stop_internal(e) ==
    [e EXCEPT !.stream = IF e.sink.live THEN @ - 1 ELSE @,
              !.sink = NoSink, !.current_path = NoPath,
              !.current_duration_ms = None, !.base_position_ms = 0,
              !.ended_emitted = FALSE]

Res(e, ev, ok) == [e |-> e, ev |-> ev, ok |-> ok]

\* play_file_at without the stop_internal call.
play_file_at_NoStop(e, path, start_ms, resume_playing, io) ==
    LET o == open_source_at_ms(path, start_ms, io)
    IN IF ~o.ok THEN Res(e, <<>>, FALSE)
       ELSE Res([e EXCEPT
                   !.sink = [connect_new EXCEPT !.volume = e.volume, !.src = o.src,
                                                !.queued = TRUE,
                                                !.paused = ~resume_playing],
                   !.current_duration_ms = o.duration_ms,
                   !.stream = @ + 1,
                   !.current_path = path,
                   !.base_position_ms = start_ms,
                   !.ended_emitted = FALSE],
                <<Started(path, o.duration_ms, start_ms)>>, TRUE)

\* play_file_at opening the source before it tears the old session down.
play_file_at_OpenFirst(e, path, start_ms, resume_playing, io) ==
    LET o == open_source_at_ms(path, start_ms, io)
        e1 == stop_internal(e)
    IN IF ~o.ok THEN Res(e, <<>>, FALSE)
       ELSE Res([e1 EXCEPT
                   !.sink = [connect_new EXCEPT !.volume = e1.volume, !.src = o.src,
                                                !.queued = TRUE,
                                                !.paused = ~resume_playing],
                   !.current_duration_ms = o.duration_ms,
                   !.stream = @ + 1,
                   !.current_path = path,
                   !.base_position_ms = start_ms],
                <<Started(path, o.duration_ms, start_ms)>>, TRUE)

\* play_file_at leaving base_position_ms as stop_internal set it.
play_file_at_NoBase(e, path, start_ms, resume_playing, io) ==
    LET e1 == stop_internal(e)
        o == open_source_at_ms(path, start_ms, io)
    IN IF ~o.ok THEN Res(e1, <<>>, FALSE)
       ELSE Res([e1 EXCEPT
                   !.sink = [connect_new EXCEPT !.volume = e1.volume, !.src = o.src,
                                                !.queued = TRUE,
                                                !.paused = ~resume_playing],
                   !.current_duration_ms = o.duration_ms,
                   !.stream = @ + 1,
                   !.current_path = path],
                <<Started(path, o.duration_ms, start_ms)>>, TRUE)

\* play_file_at without sink.set_volume(self.volume).
play_file_at_NoVolume(e, path, start_ms, resume_playing, io) ==
    LET e1 == stop_internal(e)
        o == open_source_at_ms(path, start_ms, io)
    IN IF ~o.ok THEN Res(e1, <<>>, FALSE)
       ELSE Res([e1 EXCEPT
                   !.sink = [connect_new EXCEPT !.src = o.src, !.queued = TRUE,
                                                !.paused = ~resume_playing],
                   !.current_duration_ms = o.duration_ms,
                   !.stream = @ + 1,
                   !.current_path = path,
                   !.base_position_ms = start_ms],
                <<Started(path, o.duration_ms, start_ms)>>, TRUE)

play_file_at(e, path, start_ms, resume_playing, io) ==
    LET e1 == stop_internal(e)
        sink1 == [connect_new EXCEPT !.volume = e1.volume]
        o == open_source_at_ms(path, start_ms, io)
    IN IF ~o.ok THEN Res(e1, <<>>, FALSE)
       ELSE Res([e1 EXCEPT
                   !.sink = [sink1 EXCEPT !.src = o.src, !.queued = TRUE,
                                          !.paused = ~resume_playing],
                   !.current_duration_ms = o.duration_ms,
                   !.stream = @ + 1,
                   !.current_path = path,
                   !.base_position_ms = start_ms,
                   !.ended_emitted = FALSE],
                <<Started(path, o.duration_ms, start_ms)>>, TRUE)

\* f32::clamp: NaN comes back as NaN.
clamp(v, lo, hi) ==
    IF v = NaN THEN NaN ELSE IF v < lo THEN lo ELSE IF v > hi THEN hi ELSE v

\* The arms of handle_command.  ok is FALSE exactly when a source
\* construction failed; the Boolean the code returns (leave the loop) is
\* cmd.c = "Shutdown".
\* The PlayFile arm keeping the pause state of the old sink.
HandlePlayFile_KeepPause(e, path, io) ==
    LET r == play_file_at(e, path, 0, ~(e.sink.live /\ e.sink.paused), io)
    IN IF r.ok THEN r ELSE Res(r.e, r.ev \o <<Ev("Error")>>, FALSE)

\* The PlayFile arm dropping the Err of play_file_at.
HandlePlayFile_Swallow(e, path, io) ==
    LET r == play_file_at(e, path, 0, TRUE, io)
    IN IF r.ok THEN r ELSE Res(r.e, r.ev, FALSE)

HandlePlayFile(e, path, io) ==
    LET r == play_file_at(e, path, 0, TRUE, io)
    IN IF r.ok THEN r ELSE Res(r.e, r.ev \o <<Ev("Error")>>, FALSE)

\* Pause flipping the sink's paused status.
HandlePause_Toggle(e) ==
    IF e.sink.live
    THEN Res([e EXCEPT !.sink.paused = ~@], <<Ev("Paused")>>, TRUE)
    ELSE Res(e, <<>>, TRUE)

HandlePause(e) ==
    IF e.sink.live
    THEN Res([e EXCEPT !.sink.paused = TRUE], <<Ev("Paused")>>, TRUE)
    ELSE Res(e, <<>>, TRUE)

HandleResume(e) ==
    IF e.sink.live
    THEN Res([e EXCEPT !.sink.paused = FALSE], <<Ev("Resumed")>>, TRUE)
    ELSE Res(e, <<>>, TRUE)

\* Stop sending Stopped only when a sink was there to stop.
HandleStop_OnlyLoaded(e) ==
    Res(stop_internal(e), IF e.sink.live THEN <<Ev("Stopped")>> ELSE <<>>, TRUE)

\* Stop sending Stopped without stop_internal.
HandleStop_NoTeardown(e) == Res(e, <<Ev("Stopped")>>, TRUE)

HandleStop(e) == Res(stop_internal(e), <<Ev("Stopped")>>, TRUE)

\* The Seek arm sending its Position before play_file_at sends Started.
HandleSeek_PositionFirst(e, ms, io) ==
    IF e.current_path = NoPath THEN Res(e, <<>>, TRUE)
    ELSE LET resume_playing == IF e.sink.live THEN ~e.sink.paused ELSE TRUE
             r == play_file_at(e, e.current_path, ms, resume_playing, io)
         IN IF r.ok THEN Res(r.e, <<Position(ms)>> \o r.ev, TRUE)
            ELSE Res(r.e, r.ev \o <<Ev("Error")>>, FALSE)

\* The Seek arm keeping the base offset of a session that already has one.
HandleSeek_StaleBase(e, ms, io) ==
    IF e.current_path = NoPath THEN Res(e, <<>>, TRUE)
    ELSE LET r == play_file_at(e, e.current_path, ms,
                               ~(e.sink.live /\ e.sink.paused), io)
             b == IF e.base_position_ms > 0 THEN e.base_position_ms ELSE ms
         IN IF r.ok THEN Res([r.e EXCEPT !.base_position_ms = b],
                             r.ev \o <<Position(b)>>, TRUE)
            ELSE Res(r.e, r.ev \o <<Ev("Error")>>, FALSE)

\* The Seek arm starting the new sink playing whatever the old one did.
HandleSeek_AlwaysPlay(e, ms, io) ==
    IF e.current_path = NoPath THEN Res(e, <<>>, TRUE)
    ELSE LET r == play_file_at(e, e.current_path, ms, TRUE, io)
         IN IF r.ok THEN Res(r.e, r.ev \o <<Position(ms)>>, TRUE)
            ELSE Res(r.e, r.ev \o <<Ev("Error")>>, FALSE)

\* The Seek arm without the early return on current_path = None.
HandleSeek_NoGuard(e, ms, io) ==
    LET resume_playing == IF e.sink.live THEN ~e.sink.paused ELSE TRUE
        r == play_file_at(e, e.current_path, ms, resume_playing, io)
    IN IF r.ok THEN Res(r.e, r.ev \o <<Position(ms)>>, TRUE)
       ELSE Res(r.e, r.ev \o <<Ev("Error")>>, FALSE)

HandleSeek(e, ms, io) ==
    IF e.current_path = NoPath THEN Res(e, <<>>, TRUE)
    ELSE LET resume_playing == IF e.sink.live THEN ~e.sink.paused ELSE TRUE
             r == play_file_at(e, e.current_path, ms, resume_playing, io)
         IN IF r.ok THEN Res(r.e, r.ev \o <<Position(ms)>>, TRUE)
            ELSE Res(r.e, r.ev \o <<Ev("Error")>>, FALSE)

HandleSetVolume(e, v) ==
    LET vol == clamp(v, 0, VolOne)
    IN Res([e EXCEPT !.volume = vol,
                     !.sink.volume = IF e.sink.live THEN vol ELSE @],
           <<>>, TRUE)

handle_command(e, cmd, io) ==
    CASE cmd.c = "PlayFile" -> HandlePlayFile(e, cmd.path, io)
      [] cmd.c = "Pause" -> HandlePause(e)
      [] cmd.c = "Resume" -> HandleResume(e)
      [] cmd.c = "Stop" -> HandleStop(e)
      [] cmd.c = "Seek" -> HandleSeek(e, cmd.ms, io)
      [] cmd.c = "SetVolume" -> HandleSetVolume(e, cmd.v)
      [] OTHER -> Res(e, <<>>, TRUE)

\* tick sending Stopped after TrackEnded.
tick_AlsoStopped(e) ==
    IF ~e.sink.live THEN Res(e, <<>>, TRUE)
    ELSE LET position_ms == e.base_position_ms + get_pos_ms(e.sink)
         IN IF sink_empty(e.sink) /\ e.current_path # NoPath /\ ~e.ended_emitted
            THEN Res(stop_internal([e EXCEPT !.ended_emitted = TRUE]),
                     <<Position(position_ms), Ev("TrackEnded"), Ev("Stopped")>>, TRUE)
            ELSE Res(e, <<Position(position_ms)>>, TRUE)

\* tick without arming ended_emitted and without the teardown.
tick_NoTeardown(e) ==
    IF ~e.sink.live THEN Res(e, <<>>, TRUE)
    ELSE LET position_ms == e.base_position_ms + get_pos_ms(e.sink)
         IN IF sink_empty(e.sink) /\ e.current_path # NoPath /\ ~e.ended_emitted
            THEN Res(e, <<Position(position_ms), Ev("TrackEnded")>>, TRUE)
            ELSE Res(e, <<Position(position_ms)>>, TRUE)

\* tick reporting the sink's elapsed time without the base offset.
tick_NoBase(e) ==
    IF ~e.sink.live THEN Res(e, <<>>, TRUE)
    ELSE LET position_ms == get_pos_ms(e.sink)
         IN IF sink_empty(e.sink) /\ e.current_path # NoPath /\ ~e.ended_emitted
            THEN Res(stop_internal([e EXCEPT !.ended_emitted = TRUE]),
                     <<Position(position_ms), Ev("TrackEnded")>>, TRUE)
            ELSE Res(e, <<Position(position_ms)>>, TRUE)

tick(e) ==
    IF ~e.sink.live THEN Res(e, <<>>, TRUE)
    ELSE LET position_ms == e.base_position_ms + get_pos_ms(e.sink)
         IN IF sink_empty(e.sink) /\ e.current_path # NoPath /\ ~e.ended_emitted
            THEN Res(stop_internal([e EXCEPT !.ended_emitted = TRUE]),
                     <<Position(position_ms), Ev("TrackEnded")>>, TRUE)
            ELSE Res(e, <<Position(position_ms)>>, TRUE)

\* ------------------------------------------------------ the system
\* command_rx: the command channel.  pc: where PlaybackEngine::run is.
\* engine: the PlaybackEngine.  emitted: what the last step sent on
\* event_tx.  last: the last step of the engine thread and what held
\* just before it.  hist: what the events so far say about the newest
\* source.  src: a SymphoniaSource pulled on its own, ret: what its last
\* pull returned (None before the first pull).
\* event_rx: the event channel, from the engine to the caller.  log: the
\* commands the caller has passed to send, the commands run has handled,
\* the events the engine has sent and the events the caller has handled.
VARIABLES command_rx, pc, engine, emitted, last, hist, src, ret, event_rx, log,
          heard, gui

vars == <<command_rx, pc, engine, emitted, last, hist, src, ret, event_rx, log,
          heard, gui>>

NoCmd == Cmd("none", NoPath, 0, 0)
NoIO == [open_ok |-> TRUE, seek |-> -1]

\* ended_events: TrackEnded events since the newest Started.  drain_seen:
\* a tick has found the newest source's sink drained.  open: a Started
\* has come and no Stopped or TrackEnded since.  last_pos: the last
\* Position of the session, seek_ms: the offset of the Seek that started
\* it (None outside such a session).  error_seen: an Error has come since
\* the newest Started.  failed_play: whether the last command was a
\* PlayFile whose construction failed, and if so on what ("idle" or
\* "live").  shutdown: handle_command has returned true.
HistNew ==
    [ ended_events |-> 0, drain_seen |-> FALSE, open |-> FALSE,
      last_pos |-> None, seek_ms |-> None, error_seen |-> FALSE,
      failed_play |-> "no", shutdown |-> FALSE ]

\* kind: "cmd", "tick" or "stop".  cmd: the command handled.  ok: its
\* source construction did not fail.  live, empty, paused, fatal: before
\* the step a sink was live, its queue was drained, it was paused, its
\* source had hit a fatal decode error.  after_failed: hist.failed_play
\* before the step.  io: what the environment decided during the step.
Step(kind, cmd, ok, e, h) ==
    [ kind |-> kind, cmd |-> cmd, ok |-> ok, io |-> NoIO, live |-> e.sink.live,
      empty |-> e.sink.live /\ sink_empty(e.sink), paused |-> e.sink.paused,
      fatal |-> e.sink.src.fatal, after_failed |-> h.failed_play ]
NoStep == Step("none", NoCmd, TRUE, EngineNew, HistNew)

HistEvent(h, ev, cmd) ==
    CASE ev.t = "Started" ->
           [h EXCEPT !.ended_events = 0, !.drain_seen = FALSE, !.open = TRUE,
                     !.last_pos = None, !.error_seen = FALSE,
                     !.seek_ms = IF cmd.c = "Seek" THEN ev.ms ELSE None]
      [] ev.t = "Position" -> [h EXCEPT !.last_pos = ev.ms]
      [] ev.t = "Stopped" ->
           [h EXCEPT !.open = FALSE, !.last_pos = None, !.seek_ms = None]
      [] ev.t = "TrackEnded" ->
           [h EXCEPT !.ended_events = @ + 1, !.open = FALSE,
                     !.last_pos = None, !.seek_ms = None]
      [] ev.t = "Error" -> [h EXCEPT !.error_seen = TRUE]
      [] OTHER -> h

RECURSIVE HistEvents(_, _, _)
HistEvents(h, evs, cmd) ==
    IF evs = <<>> THEN h
    ELSE HistEvents(HistEvent(h, Head(evs), cmd), Tail(evs), cmd)

HistCommand(h, e, cmd, r) ==
    [HistEvents(h, r.ev, cmd) EXCEPT
        !.failed_play = IF cmd.c = "PlayFile" /\ ~r.ok
                        THEN (IF e.sink.live THEN "live" ELSE "idle")
                        ELSE "no",
        !.shutdown = @ \/ cmd.c = "Shutdown"]

HistTick(h, e, r) ==
    HistEvents([h EXCEPT !.drain_seen = @ \/ (e.sink.live /\ sink_empty(e.sink))],
               r.ev, NoCmd)

EngineInit ==
    /\ command_rx = <<>>
    /\ pc = "recv"
    /\ engine = EngineNew
    /\ emitted = <<>>
    /\ last = NoStep
    /\ hist = HistNew

\* Sonora::default: the fields of the GUI state the playback bridge
\* reads and writes, the controller held from construction.  Ratios are
\* in tenths.
GuiNew ==
    [ playback |-> "held", now_playing |-> NoPath, selected_track |-> NoPath,
      is_playing |-> FALSE, position_ms |-> 0, duration_ms |-> None,
      volume |-> VolOne, seek_preview_ratio |-> None ]

\* What a consumer of a source on its own was given: the stream the
\* source was built on, the samples pulled up to the first None, and
\* whether that None has come.
HeardNew(pk) == [stream |-> pk, samples |-> <<>>, done |-> FALSE]

LogNew ==
    [ sent |-> <<>>, handled |-> <<>>, emitted |-> <<>>, received |-> <<>>,
      batch |-> <<>>, closed |-> <<>>, acts |-> 0 ]

\* The engine is followed by what each step sends; the caller's end of
\* the event channel is left out.
NoCaller == UNCHANGED <<event_rx, log>>

Init ==
    /\ EngineInit /\ src = NoSrc /\ ret = None /\ heard = HeardNew(<<>>)
    /\ event_rx = <<>> /\ log = LogNew /\ gui = GuiNew

Quiet == emitted' = <<>> /\ last' = NoStep

\* PlaybackController::send putting the command into the channel whether
\* or not the engine thread lives.
Send_AfterExit(cmd) ==
    /\ Len(command_rx) < MaxQueue
    /\ command_rx' = Append(command_rx, cmd)
    /\ Quiet
    /\ UNCHANGED <<pc, engine, hist, src, ret, heard, gui>>

\* PlaybackController::send; once the engine thread has ended the
\* receiver is gone, the send fails and its error is dropped.
Send(cmd) ==
    /\ Len(command_rx) < MaxQueue
    /\ command_rx' = IF pc \in {"done", "failed"} THEN command_rx
                     ELSE Append(command_rx, cmd)
    /\ Quiet
    /\ UNCHANGED <<pc, engine, hist, src, ret, heard, gui>>

\* The environment's choices during one handle_command call: those of
\* the open it makes, if it makes one.
HandleIOs(e, cmd) ==
    CASE cmd.c = "PlayFile" -> {io \in IOs(Files(cmd.path)) : io.seek = -1}
      [] cmd.c = "Seek" /\ e.current_path # NoPath ->
           {io \in IOs(Files(e.current_path)) : cmd.ms > 0 \/ io.seek = -1}
      [] OTHER -> {NoIO}

\* run ignoring what handle_command returns.
Handle_IgnoreQuit(next_pc, quit_pc) ==
    /\ command_rx # <<>>
    /\ \E io \in HandleIOs(engine, Head(command_rx)) :
         LET cmd == Head(command_rx)
             r == handle_command(engine, cmd, io)
         IN /\ engine' = r.e
            /\ emitted' = r.ev
            /\ last' = [Step("cmd", cmd, r.ok, engine, hist) EXCEPT !.io = io]
            /\ hist' = HistCommand(hist, engine, cmd, r)
            /\ pc' = next_pc
    /\ command_rx' = Tail(command_rx)
    /\ UNCHANGED <<src, ret, heard, gui>>

\* One handle_command call of run, on the command at the head of the
\* channel; next_pc is where run goes when the call returns false, and
\* quit_pc where it goes when it returns true.
Handle(next_pc, quit_pc) ==
    /\ command_rx # <<>>
    /\ \E io \in HandleIOs(engine, Head(command_rx)) :
         LET cmd == Head(command_rx)
             r == handle_command(engine, cmd, io)
         IN /\ engine' = r.e
            /\ emitted' = r.ev
            /\ last' = [Step("cmd", cmd, r.ok, engine, hist) EXCEPT !.io = io]
            /\ hist' = HistCommand(hist, engine, cmd, r)
            /\ pc' = IF cmd.c = "Shutdown" THEN quit_pc ELSE next_pc
    /\ command_rx' = Tail(command_rx)
    /\ UNCHANGED <<src, ret, heard, gui>>

\* self.tick() at the end of the loop body.
RunTick ==
    LET r == tick(engine)
    IN /\ engine' = r.e
       /\ emitted' = r.ev
       /\ last' = Step("tick", NoCmd, TRUE, engine, hist)
       /\ hist' = HistTick(hist, engine, r)
       /\ pc' = "recv"
       /\ UNCHANGED <<command_rx, src, ret, heard, gui>>

\* recv_timeout Ok going back to recv_timeout after the command, without
\* the drain loop and the tick.
RecvCommand_NoDrain == pc = "recv" /\ Handle("recv", "stop")

\* recv_timeout returns Ok(cmd): the command is handled; Shutdown breaks
\* out of the loop.
RecvCommand == pc = "recv" /\ Handle("drain", "stop")

\* recv_timeout returns Err(Timeout): the tick runs.
RecvTimeout == pc = "recv" /\ command_rx = <<>> /\ RunTick

\* try_recv returns Ok(cmd): the command is handled; Shutdown returns
\* from run.
DrainCommand == pc = "drain" /\ Handle("drain", "done")

\* try_recv returns Err: the while-let loop ends and the tick runs.
DrainEnd == pc = "drain" /\ command_rx = <<>> /\ RunTick

\* self.stop_internal() after the loop.
FinalStop ==
    /\ pc = "stop"
    /\ engine' = stop_internal(engine)
    /\ emitted' = <<>>
    /\ last' = Step("stop", NoCmd, TRUE, engine, hist)
    /\ pc' = "done"
    /\ UNCHANGED <<command_rx, hist, src, ret, heard, gui>>

\* The audio thread plays one sample of the sink's source, or finds that
\* the source has returned None and drops it from the queue.
SinkPull ==
    /\ pc # "done"
    /\ engine.sink.live /\ engine.sink.queued /\ ~engine.sink.paused
    /\ LET n == SourceNext(engine.sink.src)
       IN engine' = [engine EXCEPT
                       !.sink.src = n.s,
                       !.sink.pos = IF n.val = NoSample THEN @ ELSE @ + 1,
                       !.sink.queued = (n.val # NoSample)]
    /\ Quiet
    /\ UNCHANGED <<command_rx, pc, hist, src, ret, heard, gui>>

Next ==
    \/ \E cmd \in Commands : Send(cmd) /\ NoCaller
    \/ RecvCommand /\ NoCaller
    \/ RecvTimeout /\ NoCaller
    \/ DrainCommand /\ NoCaller
    \/ DrainEnd /\ NoCaller
    \/ FinalStop /\ NoCaller
    \/ SinkPull /\ NoCaller

Spec == Init /\ [][Next]_vars

\* --------------------------------- a session left to play out
\* The caller plays a.mp3, pauses, resumes and seeks, and sends nothing
\* while a session that a Seek started beyond the known duration is
\* live; the loop keeps ticking and the audio thread keeps pulling.
LiveCommands ==
    {Cmd("PlayFile", "a.mp3", 0, 0), Cmd("Pause", NoPath, 0, 0),
     Cmd("Resume", NoPath, 0, 0), Cmd("Seek", NoPath, 3, 0),
     Cmd("Seek", NoPath, 5, 0)}

Beyond ==
    /\ engine.sink.live /\ hist.seek_ms # None
    /\ engine.current_duration_ms # None
    /\ hist.seek_ms > engine.current_duration_ms

LiveSend(cmd) == ~Beyond /\ Send(cmd)

LiveNext ==
    \/ \E cmd \in LiveCommands : LiveSend(cmd) /\ NoCaller
    \/ RecvCommand /\ NoCaller
    \/ RecvTimeout /\ NoCaller
    \/ DrainCommand /\ NoCaller
    \/ DrainEnd /\ NoCaller
    \/ SinkPull /\ NoCaller

LiveSpec ==
    /\ Init /\ [][LiveNext]_vars
    /\ WF_vars(RecvTimeout /\ NoCaller) /\ WF_vars(DrainEnd /\ NoCaller)
    /\ WF_vars(SinkPull /\ NoCaller)

\* ------------------------------------ start_playback and its caller
\* start_playback has made the two channels and spawned the thread; the
\* thread has yet to call PlaybackEngine::new (pc = "new").
RunCommands ==
    {Cmd("PlayFile", "a.mp3", 0, 0), Cmd("Pause", NoPath, 0, 0),
     Cmd("Stop", NoPath, 0, 0), Cmd("Shutdown", NoPath, 0, 0)}

RunInit ==
    /\ command_rx = <<>>
    /\ pc = "new"
    /\ engine = EngineNew
    /\ emitted = <<>>
    /\ last = NoStep
    /\ hist = HistNew
    /\ src = NoSrc /\ ret = None /\ heard = HeardNew(<<>>)
    /\ event_rx = <<>> /\ log = LogNew /\ gui = GuiNew

\* PlaybackEngine::new in the spawned thread: open_default_stream works
\* and run starts, or it fails, new returns Err, and the thread ends with
\* event_tx and command_rx dropped (pc = "failed").
EngineConstruct ==
    /\ pc = "new"
    /\ \E audio_ok \in BOOLEAN : pc' = IF audio_ok THEN "recv" ELSE "failed"
    /\ Quiet
    /\ UNCHANGED <<command_rx, engine, hist, src, ret, heard, gui, event_rx, log>>

\* The caller passes cmd to PlaybackController::send.
ControllerSend(cmd) ==
    /\ Len(log.sent) < MaxSent
    /\ Send(cmd)
    /\ log' = [log EXCEPT !.sent = Append(@, cmd)]
    /\ UNCHANGED event_rx

\* What the step of the engine sends goes into the event channel.
Deliver ==
    /\ Len(log.emitted) + Len(emitted') <= MaxEvents + 2
    /\ event_rx' = event_rx \o emitted'
    /\ log' = [log EXCEPT
                 !.emitted = @ \o emitted',
                 !.handled = IF last'.kind = "cmd" THEN Append(@, last'.cmd) ELSE @]

\* A tick may send as long as the log has room.
TickRoom == Len(log.emitted) < MaxEvents

\* drain_events handling the newest event first.
DrainEvents_Reversed ==
    /\ event_rx # <<>>
    /\ event_rx' = <<>>
    /\ log' = [log EXCEPT !.received =
                 @ \o [i \in 1..Len(event_rx) |-> event_rx[Len(event_rx) + 1 - i]]]
    /\ UNCHANGED <<command_rx, pc, engine, emitted, last, hist, src, ret, heard, gui>>

\* drain_events: try_recv until the channel is empty, then handle_event
\* on each event in the order received.
DrainEvents ==
    /\ event_rx # <<>>
    /\ event_rx' = <<>>
    /\ log' = [log EXCEPT !.received = @ \o event_rx]
    /\ UNCHANGED <<command_rx, pc, engine, emitted, last, hist, src, ret, heard, gui>>

RunNext ==
    \/ EngineConstruct
    \/ \E cmd \in RunCommands : ControllerSend(cmd)
    \/ RecvCommand /\ Deliver
    \/ TickRoom /\ RecvTimeout /\ Deliver
    \/ DrainCommand /\ Deliver
    \/ TickRoom /\ DrainEnd /\ Deliver
    \/ FinalStop /\ NoCaller
    \/ SinkPull /\ NoCaller
    \/ DrainEvents

RunSpec == RunInit /\ [][RunNext]_vars

\* ------------------------------------------- the batches of run
\* The run loop with the commands of each batch noted: log.batch holds
\* the commands handled since the last tick, the first of them taken by
\* recv_timeout and the others by try_recv, and log.closed the batch the
\* last step's tick has ended.
BatchCommands ==
    {Cmd("PlayFile", "a.mp3", 0, 0), Cmd("Seek", NoPath, 3, 0),
     Cmd("Seek", NoPath, 5, 0), Cmd("Pause", NoPath, 0, 0),
     Cmd("Shutdown", NoPath, 0, 0)}

BatchSend(cmd) ==
    /\ Len(log.batch) + Len(command_rx) < MaxBatch
    /\ Send(cmd)

BatchNote ==
    /\ log' = [log EXCEPT !.batch =
                 IF last'.kind = "cmd"
                 THEN IF pc = "recv" THEN <<last'.cmd>> ELSE Append(@, last'.cmd)
                 ELSE IF last'.kind = "tick" THEN <<>> ELSE @,
                            !.closed =
                 IF last'.kind = "tick" THEN log.batch ELSE <<>>]
    /\ UNCHANGED event_rx

BatchNext ==
    \/ \E cmd \in BatchCommands : BatchSend(cmd) /\ NoCaller
    \/ RecvCommand /\ BatchNote
    \/ RecvTimeout /\ BatchNote
    \/ DrainCommand /\ BatchNote
    \/ DrainEnd /\ BatchNote
    \/ FinalStop /\ NoCaller
    \/ SinkPull /\ NoCaller

BatchSpec == Init /\ [][BatchNext]_vars

\* ------------------------------------- every controller dropped
\* The caller sends commands other than Shutdown and then drops the
\* controller with all its clones (gui.playback = "dropped"), which
\* disconnects the command channel.  log.sent and log.handled follow the
\* commands, and log.batch holds those that waited in the channel when
\* the controller was dropped.  The engine's events are not followed.
DropCommands ==
    {Cmd("PlayFile", "a.mp3", 0, 0), Cmd("Pause", NoPath, 0, 0),
     Cmd("Seek", NoPath, 3, 0)}

\* PlaybackController::send while a controller is held.
DropSend(cmd) ==
    /\ gui.playback = "held"
    /\ Len(log.sent) < MaxSent
    /\ command_rx' = Append(command_rx, cmd)
    /\ log' = [log EXCEPT !.sent = Append(@, cmd)]
    /\ Quiet
    /\ UNCHANGED <<pc, engine, hist, src, ret, heard, gui, event_rx>>

\* The last PlaybackController is dropped and its Sender with it.
ControllerDrop ==
    /\ gui.playback = "held"
    /\ gui' = [gui EXCEPT !.playback = "dropped"]
    /\ log' = [log EXCEPT !.batch = command_rx]
    /\ Quiet
    /\ UNCHANGED <<command_rx, pc, engine, hist, src, ret, heard, event_rx>>

\* recv_timeout reporting Disconnected whenever the sender is gone,
\* whatever the channel still holds.
RecvDisconnected_Early ==
    /\ pc = "recv"
    /\ gui.playback = "dropped"
    /\ pc' = "stop"
    /\ Quiet
    /\ UNCHANGED <<command_rx, engine, hist, src, ret, heard, gui, event_rx, log>>

\* recv_timeout returns Err(Disconnected): the sender is gone and the
\* channel is empty; run breaks out of the loop.
RecvDisconnected ==
    /\ pc = "recv"
    /\ command_rx = <<>>
    /\ gui.playback = "dropped"
    /\ pc' = "stop"
    /\ Quiet
    /\ UNCHANGED <<command_rx, engine, hist, src, ret, heard, gui, event_rx, log>>

\* recv_timeout returns Err(Timeout) only while a sender lives.
DropTimeout == gui.playback = "held" /\ RecvTimeout

DropNote ==
    /\ log' = [log EXCEPT !.handled =
                 IF last'.kind = "cmd" THEN Append(@, last'.cmd) ELSE @]
    /\ UNCHANGED event_rx

DropNext ==
    \/ \E cmd \in DropCommands : DropSend(cmd)
    \/ ControllerDrop
    \/ RecvCommand /\ DropNote
    \/ DropTimeout /\ DropNote
    \/ RecvDisconnected
    \/ DrainCommand /\ DropNote
    \/ DrainEnd /\ DropNote
    \/ FinalStop /\ NoCaller
    \/ SinkPull /\ NoCaller

\* The engine thread keeps running: a call of run that can return does.
DropSpec ==
    /\ Init /\ [][DropNext]_vars
    /\ WF_vars(RecvCommand /\ DropNote) /\ WF_vars(DrainCommand /\ DropNote)
    /\ WF_vars(DrainEnd /\ DropNote) /\ WF_vars(RecvDisconnected)
    /\ WF_vars(FinalStop /\ NoCaller)

\* ------------------------------------------- the GUI bridge
\* Each function of gui/update/playback.rs gives the GUI state it leaves
\* and the commands it passes to the controller.
Did(g, cmds) == [g |-> g, cmds |-> cmds]

\* The tracks of the library: one whose file is as in Files, and an id
\* with no row.
TrackIds == {"a.mp3", "gone"}

play_track(g, id) ==
    IF id = "gone" THEN Did(g, <<>>)
    ELSE Did([g EXCEPT !.now_playing = id, !.is_playing = TRUE,
                       !.position_ms = 0, !.duration_ms = None,
                       !.seek_preview_ratio = None],
             <<Cmd("PlayFile", id, 0, 0)>>)

play_selected(g) ==
    IF g.selected_track = NoPath THEN Did(g, <<>>)
    ELSE play_track(g, g.selected_track)

pause(g) == Did([g EXCEPT !.is_playing = FALSE], <<Cmd("Pause", NoPath, 0, 0)>>)

resume(g) ==
    IF g.now_playing = NoPath THEN play_selected(g)
    ELSE Did([g EXCEPT !.is_playing = TRUE], <<Cmd("Resume", NoPath, 0, 0)>>)

toggle_play_pause(g) ==
    IF g.is_playing THEN pause(g)
    ELSE IF g.now_playing # NoPath THEN resume(g) ELSE play_selected(g)

\* stop: no message of update is dispatched to it, so GuiNext has no
\* action that applies it.
stop(g) ==
    Did([g EXCEPT !.is_playing = FALSE, !.position_ms = 0,
                  !.duration_ms = None, !.seek_preview_ratio = None],
        <<Cmd("Stop", NoPath, 0, 0)>>)

\* ((ratio as f64) * (dur_ms as f64)).round() as u64; NaN casts to 0.
RatioMs(ratio, dur_ms) ==
    IF ratio = NaN THEN 0 ELSE RoundDiv(ratio * dur_ms, VolOne)

seek_preview(g, ratio) ==
    IF g.duration_ms = None THEN Did(g, <<>>)
    ELSE LET r == clamp(ratio, 0, VolOne)
         IN Did([g EXCEPT !.seek_preview_ratio = r,
                          !.position_ms = Min(RatioMs(r, g.duration_ms),
                                              g.duration_ms)],
                <<>>)

\* seek_commit sending the rounded target as it is.
seek_commit_NoClamp(g) ==
    IF g.duration_ms = None THEN Did([g EXCEPT !.seek_preview_ratio = None], <<>>)
    ELSE IF g.seek_preview_ratio = None THEN Did(g, <<>>)
    ELSE LET target_ms == RatioMs(g.seek_preview_ratio, g.duration_ms)
         IN Did([g EXCEPT !.seek_preview_ratio = None, !.position_ms = target_ms],
                <<Cmd("Seek", NoPath, target_ms, 0)>>)

seek_commit(g) ==
    IF g.duration_ms = None THEN Did([g EXCEPT !.seek_preview_ratio = None], <<>>)
    ELSE IF g.seek_preview_ratio = None THEN Did(g, <<>>)
    ELSE LET t0 == RatioMs(g.seek_preview_ratio, g.duration_ms)
             target_ms == IF t0 >= g.duration_ms
                          THEN Max(0, g.duration_ms - 1) ELSE t0
         IN Did([g EXCEPT !.seek_preview_ratio = None, !.position_ms = target_ms],
                <<Cmd("Seek", NoPath, target_ms, 0)>>)

handle_event(g, ev) ==
    CASE ev.t = "Started" ->
           [g EXCEPT !.is_playing = TRUE, !.duration_ms = ev.duration_ms,
                     !.position_ms = ev.ms, !.seek_preview_ratio = None]
      [] ev.t = "Paused" -> [g EXCEPT !.is_playing = FALSE]
      [] ev.t = "Resumed" -> [g EXCEPT !.is_playing = TRUE]
      [] ev.t = "Stopped" ->
           [g EXCEPT !.is_playing = FALSE, !.position_ms = 0,
                     !.duration_ms = None, !.seek_preview_ratio = None]
      [] ev.t = "Position" ->
           IF g.seek_preview_ratio = None THEN [g EXCEPT !.position_ms = ev.ms]
           ELSE g
      [] ev.t = "TrackEnded" ->
           [g EXCEPT !.is_playing = FALSE, !.position_ms = 0,
                     !.seek_preview_ratio = None]
      [] OTHER -> g

RECURSIVE HandleEvents(_, _)
HandleEvents(g, evs) ==
    IF evs = <<>> THEN g
    ELSE HandleEvents(handle_event(g, Head(evs)), Tail(evs))

\* The ratios the slider gives: 0.5, a value above the range, and NaN.
RatioInputs == {5, 15, NaN}

\* Sonora::default has called start_playback: the engine thread is about
\* to construct its engine, and nothing is selected.
GuiInit == RunInit

\* One message of the GUI handled by the function named kind: the state
\* it leaves, and its command, if any, passed through
\* PlaybackController::send, counted in log.acts and noted in last.
GuiDo(kind, d) ==
    /\ log.acts + Len(d.cmds) <= MaxActs
    /\ gui' = d.g
    /\ command_rx' = IF pc \in {"done", "failed"} THEN command_rx
                     ELSE command_rx \o d.cmds
    /\ log' = [log EXCEPT !.acts = @ + Len(d.cmds)]
    /\ emitted' = <<>>
    /\ last' = [NoStep EXCEPT !.kind = kind,
                              !.cmd = IF d.cmds = <<>> THEN NoCmd ELSE d.cmds[1]]
    /\ UNCHANGED <<pc, engine, hist, src, ret, heard, event_rx>>

GuiPlayTrack == \E id \in TrackIds : GuiDo("play_track", play_track(gui, id))
GuiTogglePlayPause == GuiDo("toggle_play_pause", toggle_play_pause(gui))
GuiSeekPreview ==
    \E ratio \in RatioInputs : GuiDo("seek_preview", seek_preview(gui, ratio))
GuiSeekCommit == GuiDo("seek_commit", seek_commit(gui))

\* drain_events: every event of the channel handled in order.
GuiDrainEvents ==
    /\ event_rx # <<>>
    /\ gui' = HandleEvents(gui, event_rx)
    /\ event_rx' = <<>>
    /\ emitted' = <<>>
    /\ last' = [NoStep EXCEPT !.kind = "drain_events"]
    /\ UNCHANGED <<command_rx, pc, engine, hist, src, ret, heard, log>>

\* What the step of the engine sends goes into the event channel.
GuiDeliver == event_rx' = event_rx \o emitted' /\ UNCHANGED log

\* A tick may send as long as fewer than MaxPending events await the GUI.
GuiTickRoom == Len(event_rx) < MaxPending

GuiNext ==
    \/ EngineConstruct
    \/ GuiPlayTrack
    \/ GuiTogglePlayPause
    \/ GuiSeekPreview
    \/ GuiSeekCommit
    \/ GuiDrainEvents
    \/ RecvCommand /\ GuiDeliver
    \/ GuiTickRoom /\ RecvTimeout /\ GuiDeliver
    \/ DrainCommand /\ GuiDeliver
    \/ GuiTickRoom /\ DrainEnd /\ GuiDeliver
    \/ SinkPull /\ NoCaller

GuiSpec == GuiInit /\ [][GuiNext]_vars

\* ------------------------------------------- the source on its own
\* The packets a stream can hold: decoded buffers of one or two mono
\* samples at 1000 Hz, one stereo frame at 2000 Hz, an empty decoded
\* buffer, and every error outcome of next_packet() and decode().
PacketKinds ==
    {Ok(1, 1000, 1), Ok(2, 1000, 1), Ok(2, 2000, 2), Ok(0, 1000, 1)}
      \cup {Bad(k) : k \in {"reset", "readfatal", "other", "decio", "corrupt",
                            "decreset", "decfatal"}}

Streams == UNION {[1..n -> PacketKinds] : n \in 0..MaxPackets}

\* SymphoniaSource::new on any stream with any pending skip.
SrcInit ==
    /\ EngineInit /\ event_rx = <<>> /\ log = LogNew /\ gui = GuiNew
    /\ \E pk \in Streams, skip_ms \in 0..MaxSkipMs :
         src = SourceNew(pk, "first", skip_ms) /\ heard = HeardNew(pk)
    /\ ret = None

\* One call of Iterator::next.
Pull ==
    /\ LET n == SourceNext(src)
       IN /\ src' = n.s /\ ret' = n.val
          /\ heard' = IF heard.done THEN heard
                      ELSE IF n.val = NoSample THEN [heard EXCEPT !.done = TRUE]
                      ELSE [heard EXCEPT !.samples = Append(@, n.val)]
    /\ UNCHANGED <<command_rx, pc, engine, emitted, last, hist, event_rx, log, gui>>

SrcNext == Pull

SrcSpec == SrcInit /\ [][SrcNext]_vars

\* The streams of a consumer that pulls to the end: buffers of two
\* samples, empty buffers, packets of other tracks, and the corrupt,
\* reset-required and fatal outcomes.
LivePacketKinds ==
    {Ok(2, 1000, 1), Ok(0, 1000, 1)}
      \cup {Bad(k) : k \in {"reset", "other", "corrupt", "decreset", "decfatal"}}

LiveStreams == UNION {[1..n -> LivePacketKinds] : n \in 0..MaxPackets}

SrcLiveInit ==
    /\ EngineInit /\ event_rx = <<>> /\ log = LogNew /\ gui = GuiNew
    /\ \E pk \in LiveStreams, skip_ms \in 0..MaxSkipMs :
         src = SourceNew(pk, "first", skip_ms) /\ heard = HeardNew(pk)
    /\ ret = None

\* The consumer keeps calling next as long as a call changes anything.
SrcLiveSpec == SrcLiveInit /\ [][SrcNext]_vars /\ WF_vars(Pull)

\* ---------------------------------------------------------- claims
HasEv(evs, t) == \E i \in 1..Len(evs) : evs[i].t = t
Idle(e) ==
    /\ ~e.sink.live
    /\ e.current_path = NoPath
    /\ e.current_duration_ms = None
    /\ e.base_position_ms = 0
Handled(c) == last.kind = "cmd" /\ last.cmd.c = c

\* C1: a source whose drained sink a tick has found gets exactly one
\* TrackEnded, however many ticks follow; a source no tick has found
\* drained gets none.
C1_SingleTrackEnded == hist.ended_events = IF hist.drain_seen THEN 1 ELSE 0

\* A tick runs on the idle engine after the TrackEnded of a drained source.
C1_Witness ==
    /\ last.kind = "tick" /\ ~last.live
    /\ hist.drain_seen /\ hist.ended_events = 1

\* C2: a TrackEnded is only ever sent by a tick that finds the live sink
\* of an open session drained, never by a command and never between a
\* Stopped and the next Started.
C2_NoTrackEndedOnStopSeek ==
    [][ HasEv(emitted', "TrackEnded") =>
          /\ hist.open
          /\ last'.kind = "tick" /\ last'.live /\ last'.empty
          /\ hist'.ended_events = 1 ]_vars

\* Stop is handled when the source has drained and no tick has seen it.
C2_Witness ==
    /\ Handled("Stop") /\ last.live /\ last.empty
    /\ ~hist.drain_seen /\ hist.ended_events = 0

\* C3 as claimed: a Seek whose construction fails on a live session sends
\* one Error and leaves the engine as it was.
C3_FailedSeekKeepsSession ==
    [][ (last'.kind = "cmd" /\ last'.cmd.c = "Seek" /\ ~last'.ok /\ engine.sink.live)
          => (emitted' = <<Ev("Error")>> /\ engine' = engine) ]_vars

\* C4: a PlayFile whose construction fails sends exactly one Error and
\* nothing else and leaves the engine idle, whatever it was before; a
\* Pause or Resume handled next sends nothing.
C4_FailedPlayFileIdle ==
    /\ (Handled("PlayFile") /\ ~last.ok) =>
          (emitted = <<Ev("Error")>> /\ Idle(engine))
    /\ (last.kind = "cmd" /\ last.cmd.c \in {"Pause", "Resume"}
          /\ last.after_failed # "no") =>
          (emitted = <<>> /\ Idle(engine))

\* A Pause is handled right after a PlayFile that failed on a live session.
C4_Witness == Handled("Pause") /\ last.after_failed = "live" /\ emitted = <<>>

\* C5 as claimed: a source that has hit a fatal decode error has ended,
\* and when the tick sends TrackEnded for it an Error has been sent too.
C5_FatalDecodeReported ==
    /\ (engine.sink.live /\ engine.sink.src.fatal) => engine.sink.src.ended
    /\ (last.kind = "tick" /\ last.fatal /\ HasEv(emitted, "TrackEnded"))
          => hist.error_seen

\* C6 as claimed: a pull returns None exactly when the source has ended
\* with its buffer drained, and after a None every pull returns None.
C6_NoneIffEndedAndDrained ==
    [][ /\ (ret' = NoSample) <=> (src'.ended /\ src'.out_pos >= Len(src'.out))
        /\ (ret = NoSample) => (ret' = NoSample) ]_vars

\* The Position events of emitted, from a session whose last Position was
\* p (None: none yet), never go down before the session changes.
RECURSIVE Monotone(_, _)
Monotone(p, evs) ==
    IF evs = <<>> THEN TRUE
    ELSE LET ev == Head(evs)
         IN CASE ev.t = "Position" ->
                   (p = None \/ ev.ms >= p) /\ Monotone(ev.ms, Tail(evs))
              [] ev.t \in {"Started", "Stopped", "TrackEnded"} ->
                   Monotone(None, Tail(evs))
              [] OTHER -> Monotone(p, Tail(evs))

\* C7: within a session the Position events never go down.
C7_PositionMonotone == [][ Monotone(hist.last_pos, emitted') ]_vars

\* After the Position{0} of a Seek(0), a tick of the same session reports
\* a later position, the sink having played in between.
C7_Witness ==
    /\ last.kind = "tick" /\ hist.open /\ hist.seek_ms = 0
    /\ hist.last_pos # None /\ hist.last_pos > 0

\* C8: a successful Seek(ms) sends Started{ms} and then Position{ms} on a
\* connection that has played nothing, and until the session changes
\* every tick's Position is ms plus what that connection has played.
C8_SeekPosition ==
    [][ /\ (last'.kind = "cmd" /\ last'.cmd.c = "Seek" /\ last'.ok
              /\ engine.current_path # NoPath) =>
              /\ emitted' = <<Started(engine.current_path,
                                      engine'.current_duration_ms, last'.cmd.ms),
                              Position(last'.cmd.ms)>>
              /\ emitted'[2].ms <= last'.cmd.ms + TICK_MS
              /\ engine'.sink.live /\ engine'.sink.pos = 0
              /\ hist'.seek_ms = last'.cmd.ms
        /\ (hist.seek_ms # None /\ last'.kind = "tick" /\ emitted' # <<>>) =>
              /\ emitted'[1] = Position(hist.seek_ms + get_pos_ms(engine.sink))
              /\ emitted'[1].ms >= hist.seek_ms
        /\ (hist.seek_ms # None /\ last'.kind = "cmd" /\ last'.cmd.c # "Seek") =>
              ~HasEv(emitted', "Position") ]_vars

\* A tick reports more than ms in a session whose container seek landed
\* short of ms, the rest having been decode-skipped.
C8_Witness ==
    /\ last.kind = "tick" /\ hist.seek_ms # None /\ hist.seek_ms > 0
    /\ hist.last_pos > hist.seek_ms
    /\ engine.sink.live /\ engine.sink.src.dec = "remade"
    /\ engine.sink.src.skip_ms > 0

\* C9: a live sink always has the engine's volume, and the engine's
\* volume changes only when SetVolume(v) is handled, to clamp(v).
C9_VolumePersists ==
    [][ /\ engine'.sink.live => engine'.sink.volume = engine'.volume
        /\ engine'.volume = IF last'.kind = "cmd" /\ last'.cmd.c = "SetVolume"
                            THEN clamp(last'.cmd.v, 0, VolOne)
                            ELSE engine.volume ]_vars

\* A PlayFile handled on the idle engine gives the new connection the
\* volume an earlier SetVolume left.
C9_Witness ==
    /\ Handled("PlayFile") /\ last.ok /\ ~last.live
    /\ engine.sink.live /\ engine.sink.volume = 5

\* C10 as claimed: the volume is always within [0.0, 1.0], values above
\* 1.0 being stored as 1.0 and values below 0.0 as 0.0.
C10_VolumeClamped ==
    /\ engine.volume >= 0 /\ engine.volume <= VolOne
    /\ (Handled("SetVolume") /\ last.cmd.v # NaN) =>
          engine.volume = Min(Max(last.cmd.v, 0), VolOne)

\* C11: Pause, Resume, SetVolume and Seek handled while no sink is live
\* send no event and leave the engine as it was, except that SetVolume(v)
\* stores clamp(v).
C11_IdleNoOps ==
    [][ (last'.kind = "cmd" /\ ~engine.sink.live
           /\ last'.cmd.c \in {"Pause", "Resume", "SetVolume", "Seek"}) =>
          /\ emitted' = <<>>
          /\ engine' = [engine EXCEPT
                          !.volume = IF last'.cmd.c = "SetVolume"
                                     THEN clamp(last'.cmd.v, 0, VolOne) ELSE @]
          /\ Idle(engine') ]_vars

\* A Seek is handled on the engine a TrackEnded has left idle.
C11_Witness ==
    /\ Handled("Seek") /\ ~last.live /\ ~engine.sink.live
    /\ hist.ended_events = 1 /\ emitted = <<>>

\* What a handled command did: it changed the engine, built a new
\* session, or made run leave its loop.
Effect ==
    \/ engine' # engine
    \/ last'.cmd.c \in {"PlayFile", "Seek"} /\ last'.ok /\ engine'.sink.live
    \/ last'.cmd.c = "Shutdown" /\ pc' # pc

\* C12 as claimed: every handled command has an effect or sends an event,
\* except SetVolume, Pause and Resume when nothing is loaded.
C12_NoSilentDrop ==
    [][ last'.kind = "cmd" =>
          \/ Effect
          \/ emitted' # <<>>
          \/ last'.cmd.c \in {"SetVolume", "Pause", "Resume"} /\ ~engine.sink.live
      ]_vars

\* C12 amended: every handled command has an effect or sends an event,
\* except Pause, Resume and Seek when nothing is loaded and SetVolume,
\* which never sends an event.
C12_NoSilentDropButSeek ==
    [][ last'.kind = "cmd" =>
          \/ Effect
          \/ emitted' # <<>>
          \/ last'.cmd.c \in {"Seek", "Pause", "Resume"} /\ ~engine.sink.live
          \/ last'.cmd.c = "SetVolume" /\ emitted' = <<>>
      ]_vars

\* A PlayFile fails on the idle engine: nothing changes and the Error is
\* all there is.
C12_Witness ==
    /\ Handled("PlayFile") /\ ~last.ok /\ ~last.live
    /\ emitted = <<Ev("Error")>> /\ last.after_failed = "idle"

\* C14: the output stream never carries more than the engine's one sink,
\* and a PlayFile or Seek that reaches play_file_at has torn the old
\* session down before it builds: a failure leaves stop_internal's state,
\* a success a sink that has played nothing on a stream of one.
C14_OneSession ==
    [][ /\ engine'.stream = (IF engine'.sink.live THEN 1 ELSE 0)
        /\ engine'.sink.live <=> engine'.current_path # NoPath
        /\ (last'.kind = "cmd" /\ last'.cmd.c \in {"PlayFile", "Seek"}
              /\ (last'.cmd.c = "Seek" => engine.current_path # NoPath)) =>
              IF last'.ok
              THEN /\ engine'.stream = 1 /\ engine'.sink.pos = 0
                   /\ ~engine'.ended_emitted
                   /\ engine'.base_position_ms = last'.cmd.ms
                   /\ engine'.volume = engine.volume
              ELSE engine' = stop_internal(engine) /\ Idle(engine')
      ]_vars

\* A PlayFile has replaced a live session by a fresh one.
C14_Witness ==
    /\ Handled("PlayFile") /\ last.live /\ last.ok
    /\ engine.stream = 1 /\ engine.sink.pos = 0 /\ hist.last_pos = None

\* C16: once handle_command has returned true for Shutdown, run handles
\* no command, runs no tick and sends no event.
C16_NothingAfterShutdown ==
    [][ hist.shutdown =>
          /\ last'.kind \notin {"cmd", "tick"}
          /\ emitted' = <<>>
          /\ Len(command_rx') >= Len(command_rx)
          /\ pc' \in {"stop", "done"} ]_vars

\* run has returned after a Shutdown and a command sent behind it is
\* still in the channel.
C16_Witness == hist.shutdown /\ pc = "done" /\ command_rx # <<>>

\* C17 as claimed: whenever run has returned, the final teardown has
\* been done: no sink, no session state.
C17_FinalTeardown == pc = "done" => (~engine.sink.live /\ Idle(engine))

\* C20: a tick that finds the live sink drained sends Position and then
\* TrackEnded, no Stopped, and leaves the engine idle; the idle engine
\* sends no Position and no TrackEnded, and only a PlayFile that succeeds
\* gives it a sink again.
C20_TrackEndedTerminal ==
    [][ /\ (last'.kind = "tick" /\ engine.sink.live /\ sink_empty(engine.sink)) =>
              /\ emitted' = <<Position(engine.base_position_ms
                                         + get_pos_ms(engine.sink)),
                              Ev("TrackEnded")>>
              /\ Idle(engine') /\ ~engine'.sink.live
        /\ ~engine.sink.live =>
              /\ ~HasEv(emitted', "Position") /\ ~HasEv(emitted', "TrackEnded")
              /\ engine'.sink.live =>
                    (last'.kind = "cmd" /\ last'.cmd.c = "PlayFile" /\ last'.ok)
      ]_vars

\* The tick has just sent Position and TrackEnded for a drained sink.
C20_Witness ==
    /\ last.kind = "tick" /\ last.empty /\ Len(emitted) = 2
    /\ emitted[2] = Ev("TrackEnded") /\ Idle(engine)

\* A session that a Seek started beyond the known duration is live, no
\* command is waiting and the loop is running.
BeyondLeftAlone == Beyond /\ command_rx = <<>> /\ pc \in {"recv", "drain"}

\* A Seek beyond the known duration whose file still opens sends Started
\* and Position and no Error, whatever the container seek does.
SeekBeyondStarts ==
    (/\ last'.kind = "cmd" /\ last'.cmd.c = "Seek" /\ last'.io.open_ok
     /\ engine.current_path # NoPath /\ engine.current_duration_ms # None
     /\ last'.cmd.ms > engine.current_duration_ms) =>
       /\ last'.ok
       /\ emitted' = <<Started(engine.current_path, engine.current_duration_ms,
                               last'.cmd.ms),
                       Position(last'.cmd.ms)>>

\* C13 as claimed: a Seek beyond the known duration sends Started and no
\* Error, and with continued ticks and no further commands a TrackEnded
\* follows.
C13_SeekBeyondEnds ==
    /\ [][SeekBeyondStarts]_vars
    /\ BeyondLeftAlone ~> HasEv(emitted, "TrackEnded")

\* C13 amended: the same, for a session that is playing.
C13_SeekBeyondEndsIfPlaying ==
    /\ [][SeekBeyondStarts]_vars
    /\ (BeyondLeftAlone /\ ~engine.sink.paused) ~> HasEv(emitted, "TrackEnded")

\* A Seek beyond the duration has started a playing session although the
\* container seek failed: the whole offset is left to the decode-skip.
C13_Witness ==
    /\ Handled("Seek") /\ last.ok /\ last.io.seek = -1
    /\ BeyondLeftAlone /\ ~engine.sink.paused
    /\ engine.sink.src.skip_ms = last.cmd.ms

IsPrefix(s, u) == Len(s) <= Len(u) /\ s = SubSeq(u, 1, Len(s))

C18_AudioInitFailureReported ==
    pc = "failed" => \E i \in 1..Len(log.emitted) : log.emitted[i].t = "Error"

\* C19: a send after the engine thread has ended leaves the command
\* channel, the engine and the event channel as they were and causes no
\* event.
C19_SendAfterExitDiscarded ==
    [][ (pc \in {"done", "failed"} /\ log'.sent # log.sent) =>
          /\ command_rx' = command_rx /\ engine' = engine /\ pc' = pc
          /\ event_rx' = event_rx /\ emitted' = <<>>
          /\ log'.emitted = log.emitted /\ log'.received = log.received
          /\ log'.handled = log.handled ]_vars

\* A command was passed to send after run had returned.
C19_Witness ==
    /\ pc = "done" /\ hist.shutdown
    /\ Len(log.sent) > Len(log.handled) + Len(command_rx)

\* A Seek(ms) with ms > 0 is handled on a loaded path and its file opens.
SeekOpens ==
    /\ last'.kind = "cmd" /\ last'.cmd.c = "Seek" /\ last'.cmd.ms > 0
    /\ engine.current_path # NoPath /\ last'.io.open_ok

\* Where the container seek of the step landed, in milliseconds.
SeekActualMs ==
    TsToMs(ActualTs(Files(engine.current_path), last'.io.seek),
           Files(engine.current_path).sr)

\* C22 as claimed: the skip recorded is max(0, start_ms - actual_ms) when
\* the container seek succeeds and start_ms when it fails or the track
\* has no time base, and a failed container seek sends no Error.
C22_SkipRecorded ==
    [][ SeekOpens =>
          /\ last'.ok /\ ~HasEv(emitted', "Error")
          /\ engine'.sink.src.skip_ms =
                IF last'.io.seek = -1 \/ ~Files(engine.current_path).time_base
                THEN last'.cmd.ms
                ELSE Max(0, last'.cmd.ms - SeekActualMs) ]_vars

\* C22 amended: the skip recorded is start_ms when the container seek
\* fails, max(0, start_ms - actual_ms) when it succeeds on a track with a
\* time base, and 0 when it succeeds on a track without one; a failed
\* container seek sends no Error.
C22_SkipRecordedTimeSeek ==
    [][ SeekOpens =>
          /\ last'.ok /\ ~HasEv(emitted', "Error")
          /\ engine'.sink.src.skip_ms =
                IF last'.io.seek = -1 THEN last'.cmd.ms
                ELSE IF Files(engine.current_path).time_base
                     THEN Max(0, last'.cmd.ms - SeekActualMs)
                     ELSE 0 ]_vars

\* A Seek(3) on a track with a time base has landed at 2 ms and left
\* 1 ms to the decode-skip.
C22_Witness ==
    /\ Handled("Seek") /\ last.ok /\ last.cmd.ms = 3 /\ last.io.seek = 1
    /\ engine.current_duration_ms # None
    /\ engine.sink.src.skip_ms = 1

\* C23 as claimed: the source of a session opened at an offset above 0
\* decodes with a decoder made after the seek attempt.
C23_DecoderRemade ==
    (engine.sink.live /\ engine.base_position_ms > 0) =>
        engine.sink.src.dec = "remade"

\* C29: a successful Seek(ms) on a live session leaves the new sink paused
\* exactly if the old one was, keeps the path, sets the base offset to ms
\* and sends Started{start_ms: ms}.
C29_SeekKeepsIntent ==
    [][ (last'.kind = "cmd" /\ last'.cmd.c = "Seek" /\ last'.ok
           /\ engine.sink.live) =>
          /\ engine'.sink.live
          /\ engine'.sink.paused = engine.sink.paused
          /\ engine'.current_path = engine.current_path
          /\ engine'.base_position_ms = last'.cmd.ms
          /\ ~engine'.ended_emitted
          /\ emitted'[1] = Started(engine.current_path,
                                   engine'.current_duration_ms, last'.cmd.ms) ]_vars

\* A Seek has succeeded on a paused session and the new sink is paused.
C29_Witness ==
    /\ Handled("Seek") /\ last.ok /\ last.live /\ last.paused
    /\ engine.sink.paused /\ engine.sink.pos = 0

\* C30: a successful PlayFile(path), whatever the engine was doing, sends
\* exactly one Started{start_ms: 0} and nothing else, and leaves one sink
\* that plays, has the engine's volume and has played nothing, with base
\* offset 0.
C30_PlayFileStartsFresh ==
    [][ (last'.kind = "cmd" /\ last'.cmd.c = "PlayFile" /\ last'.ok) =>
          /\ emitted' = <<Started(last'.cmd.path, engine'.current_duration_ms, 0)>>
          /\ engine'.sink.live /\ ~engine'.sink.paused
          /\ engine'.sink.volume = engine.volume
          /\ engine'.volume = engine.volume
          /\ engine'.sink.pos = 0 /\ engine'.stream = 1
          /\ engine'.current_path = last'.cmd.path
          /\ engine'.base_position_ms = 0
          /\ ~engine'.ended_emitted ]_vars

\* A PlayFile has succeeded on a paused session of another path.
C30_Witness ==
    /\ Handled("PlayFile") /\ last.ok /\ last.live /\ last.paused
    /\ ~engine.sink.paused /\ engine.current_path = "b.ogg"
    /\ engine.volume # VolOne

\* A stream in which every packet decodes to a non-empty buffer.
PlainStream(pk) == \A i \in 1..Len(pk) : pk[i].k = "ok" /\ pk[i].n > 0

\* T: the samples the packets of pk decode to.
RECURSIVE TotalSamples(_)
TotalSamples(pk) ==
    IF pk = <<>> THEN 0
    ELSE (IF Head(pk).k = "ok" THEN Head(pk).n ELSE 0) + TotalSamples(Tail(pk))

\* S: the pending skip in samples, at the rate and channel count of the
\* first decoded buffer.
SkipSamples(pk, skip_ms) ==
    IF pk = <<>> THEN 0 ELSE CeilDiv(skip_ms * pk[1].sr, 1000) * pk[1].ch

\* C21 as claimed: on a stream of non-empty decoded buffers totalling T
\* samples with a pending skip of S samples, the source has discarded
\* min(S, T) samples when it ends, and the samples it gives up to its
\* first None are the decoded samples min(S, T) + 1 .. T in order.
C21_SkipAcrossRefills ==
    LET T == TotalSamples(heard.stream)
        S == SkipSamples(heard.stream, src.skip_ms)
        D == Min(S, T)
    IN PlainStream(heard.stream) =>
         /\ heard.done => heard.samples = [i \in 1..(T - D) |-> D + i]
         /\ src.ended => src.skip_samples_remaining = S - D

\* The packets the step's refill has taken from the stream.
Consumed == Len(src.pk) - Len(src'.pk)

\* The step's refill has stopped at a fatal read or decode error.
FatalStop ==
    Consumed > 0 /\ src.pk[Consumed].k \in {"readfatal", "decfatal"}

\* C24: the skip is converted when and only when the first non-empty
\* buffer has been decoded, to ceil(skip_ms * sample_rate / 1000) *
\* channels at that buffer's rate and channel count; it stays converted,
\* and from then on the counter only goes down, by what each refilled
\* buffer absorbs.
C24_SkipConvertedOnce ==
    /\ [](/\ src.skip_initialized <=> src.decoded > 0
          /\ (src.decoded > 0 /\ src.decoded = Len(src.out)) =>
                src.skip_samples_remaining =
                  Max(0, CeilDiv(src.skip_ms * src.sample_rate, 1000)
                           * src.channels - Len(src.out)))
    /\ [][ src.skip_initialized =>
             /\ src'.skip_initialized
             /\ src'.skip_samples_remaining <= src.skip_samples_remaining
             /\ src'.skip_samples_remaining =
                   IF src'.decoded > src.decoded
                   THEN Max(0, src.skip_samples_remaining - Len(src'.out))
                   ELSE src.skip_samples_remaining ]_vars

\* A skip of 1 ms converted at 2000 Hz stereo to 4 samples has been used
\* up over three buffers, the later ones mono at 1000 Hz.
C24_Witness ==
    /\ Len(heard.stream) = 3 /\ heard.stream[1] = Ok(2, 2000, 2)
    /\ src.skip_ms = 1 /\ src.sample_rate = 1000 /\ src.channels = 1
    /\ src.skip_initialized /\ src.skip_samples_remaining = 0
    /\ ret = 5

\* The reset-required outcomes among the first n packets of pk.
RECURSIVE ResetsIn(_, _)
ResetsIn(pk, n) ==
    IF n = 0 THEN 0
    ELSE (IF pk[n].k \in {"reset", "decreset"} THEN 1 ELSE 0) + ResetsIn(pk, n - 1)

\* C25 as claimed: a refill passes over every corrupt packet and every
\* reset-required outcome, resetting the decoder for the latter, and goes
\* on to the next packet without an error; the end-of-stream flag is
\* raised by the refill only at the reader's I/O end of stream.
C25_CorruptAndResetPassed ==
    [][ /\ \A i \in 1..Consumed :
             src.pk[i].k \in {"corrupt", "reset", "decreset"} =>
                \/ i < Consumed
                \/ src'.pk = <<>> /\ src'.ended /\ src'.fatal = src.fatal
        /\ src'.resets = src.resets + ResetsIn(src.pk, Consumed)
        /\ (src'.ended /\ ~src.ended /\ ~FatalStop) =>
              \/ Consumed = 0
              \/ src.pk[Consumed].k = "decio"
              \/ src.pk[Consumed].k # "ok" /\ src'.pk = <<>> ]_vars

\* C26 as claimed: a refill goes past packets of other tracks and packets
\* decoding to an empty buffer, which add no samples, and stops without
\* ending the stream only at a packet decoding to a non-empty buffer.
C26_EmptyAndForeignPassed ==
    [][ /\ \A i \in 1..Consumed :
             (src.pk[i].k = "other" \/ (src.pk[i].k = "ok" /\ src.pk[i].n = 0)) =>
                (i < Consumed \/ src'.pk = <<>>)
        /\ src'.decoded = src.decoded +
              (IF Consumed > 0 /\ src.pk[Consumed].k = "ok"
               THEN src.pk[Consumed].n ELSE 0)
        /\ (Consumed > 0 /\ ~src'.ended /\ ~FatalStop) =>
              (src.pk[Consumed].k = "ok" /\ src.pk[Consumed].n > 0) ]_vars

\* C27: while a batch is open the loop is at try_recv (or has left on a
\* Shutdown), so the next command taken by recv_timeout finds the batch
\* closed by a tick; a tick runs only with no command left in the queue,
\* closes the batch and leads back to recv_timeout.
C27_TickAfterBatch ==
    /\ [](log.batch # <<>> =>
            \/ pc = "drain"
            \/ pc \in {"stop", "done"}
                 /\ log.batch[Len(log.batch)].c = "Shutdown")
    /\ [][ /\ last'.kind = "tick" =>
               /\ command_rx = <<>> /\ pc' = "recv" /\ log'.batch = <<>>
               /\ \A i \in 1..Len(log.batch) : log.batch[i].c # "Shutdown"
           /\ last'.kind = "cmd" =>
               /\ (pc = "recv") <=> (log.batch = <<>>)
               /\ pc' = IF last'.cmd.c = "Shutdown"
                        THEN (IF pc = "recv" THEN "stop" ELSE "done")
                        ELSE "drain" ]_vars

\* A Pause has been handled right after the PlayFile of the same batch,
\* no tick having reported a position in between.
C27_Witness ==
    /\ pc = "drain" /\ Handled("Pause") /\ emitted = <<Ev("Paused")>>
    /\ log.batch = <<Cmd("PlayFile", "a.mp3", 0, 0), Cmd("Pause", NoPath, 0, 0)>>
    /\ hist.last_pos = None

\* The batch ends with a Seek whose session is the live one.
SeekEndsBatch ==
    /\ log.batch # <<>> /\ log.batch[Len(log.batch)].c = "Seek"
    /\ engine.sink.live /\ hist.seek_ms = log.batch[Len(log.batch)].ms

\* C28: when a successful Seek(b) follows a successful Seek(a) in one
\* batch, the base offset becomes b and the only sink left holds the
\* source opened at b, having played nothing; the tick that ends the
\* batch reports b plus what that sink has played.
C28_LastSeekWins ==
    [][ /\ (SeekEndsBatch /\ last'.kind = "cmd" /\ last'.cmd.c = "Seek"
              /\ last'.ok) =>
              /\ engine'.base_position_ms = last'.cmd.ms
              /\ engine'.stream = 1 /\ engine'.sink.live
              /\ engine'.sink.pos = 0
              /\ engine'.sink.src =
                    open_source_at_ms(engine.current_path, last'.cmd.ms,
                                      last'.io).src
              /\ hist'.seek_ms = last'.cmd.ms
        /\ (SeekEndsBatch /\ Len(log.batch) >= 2
              /\ log.batch[Len(log.batch) - 1].c = "Seek"
              /\ last'.kind = "tick") =>
              /\ engine.base_position_ms = log.batch[Len(log.batch)].ms
              /\ emitted'[1] = Position(engine.base_position_ms
                                          + get_pos_ms(engine.sink))
              /\ emitted'[1].ms >= log.batch[Len(log.batch)].ms ]_vars

\* Seek(5) then Seek(3) have succeeded in one batch and the tick after
\* them has reported a position from 3 on.
C28_Witness ==
    /\ last.kind = "tick" /\ hist.seek_ms = 3 /\ engine.base_position_ms = 3
    /\ log.closed = <<Cmd("Seek", NoPath, 5, 0), Cmd("Seek", NoPath, 3, 0)>>
    /\ emitted # <<>> /\ emitted[1].t = "Position" /\ emitted[1].ms >= 3
    /\ hist.last_pos >= 3

\* C31: a Stop, whatever the engine held, leaves no sink, no path, no
\* duration and base offset 0, keeps the volume, and sends Stopped alone.
C31_StopClearsAll ==
    [][ (last'.kind = "cmd" /\ last'.cmd.c = "Stop") =>
          /\ Idle(engine') /\ engine'.stream = 0
          /\ engine'.volume = engine.volume
          /\ emitted' = <<Ev("Stopped")>> ]_vars

\* A Stop has been handled with nothing loaded and a volume other than
\* the initial one.
C31_Witness ==
    /\ Handled("Stop") /\ ~last.live /\ emitted = <<Ev("Stopped")>>
    /\ engine.volume # VolOne

\* C32: a Pause or Resume handled on a live sink sends Paused or Resumed
\* alone and changes nothing but the sink's paused status, so handling it
\* on a sink already in that status changes nothing.
C32_PauseResumeFrame ==
    [][ (last'.kind = "cmd" /\ last'.cmd.c \in {"Pause", "Resume"}
           /\ engine.sink.live) =>
          /\ emitted' = <<Ev(IF last'.cmd.c = "Pause" THEN "Paused" ELSE "Resumed")>>
          /\ engine' = [engine EXCEPT !.sink.paused = (last'.cmd.c = "Pause")]
          /\ (engine.sink.paused = (last'.cmd.c = "Pause")) => engine' = engine ]_vars

\* A Pause has been handled on a sink that was already paused and had
\* played part of its source.
C32_Witness ==
    /\ Handled("Pause") /\ last.live /\ last.paused
    /\ engine.sink.paused /\ engine.sink.pos > 0
    /\ emitted = <<Ev("Paused")>>

\* C35: between the steps of the run loop the sink is there exactly when
\* the path is, an engine without a sink has no duration and base offset
\* 0, and ended_emitted is false.
C35_EngineInvariant ==
    /\ engine.sink.live <=> engine.current_path # NoPath
    /\ ~engine.sink.live =>
          (engine.current_duration_ms = None /\ engine.base_position_ms = 0)
    /\ ~engine.ended_emitted

\* A tick has found a paused sink drained, sent TrackEnded and left the
\* engine idle with ended_emitted lowered again.
C35_Witness ==
    /\ last.kind = "tick" /\ last.live /\ last.paused
    /\ HasEv(emitted, "TrackEnded")
    /\ Idle(engine) /\ ~engine.ended_emitted

\* C36: a Seek that succeeds sends Started{ms} and then Position{ms} and
\* nothing else, a Seek that fails sends one Error and nothing else, and
\* a Seek with nothing loaded sends nothing.
C36_SeekEventOrder ==
    [][ (last'.kind = "cmd" /\ last'.cmd.c = "Seek") =>
          IF engine.current_path = NoPath THEN emitted' = <<>>
          ELSE IF last'.ok
               THEN /\ Len(emitted') = 2
                    /\ emitted'[1].t = "Started" /\ emitted'[1].ms = last'.cmd.ms
                    /\ emitted'[2] = Position(last'.cmd.ms)
               ELSE emitted' = <<Ev("Error")>> ]_vars

\* A Seek on a paused session has failed and sent its Error.
C36_Witness ==
    /\ Handled("Seek") /\ ~last.ok /\ last.live /\ last.paused
    /\ emitted = <<Ev("Error")>>

\* C34: on every stream the pulls come to return None and go on
\* returning it, each pull being one terminating refill at most.
C34_PullsReachNone == <>[](ret = NoSample /\ src.ended)

\* A source has given its two samples, then passed a corrupt packet and a
\* reset-required outcome in one refill and returned None at the end.
C34_Witness ==
    /\ ret = NoSample /\ src.ended /\ src.pk = <<>> /\ src.resets = 1
    /\ Len(heard.stream) = 3 /\ heard.stream[1] = Ok(2, 1000, 1)
    /\ heard.stream[2].k = "corrupt" /\ heard.stream[3].k = "reset"
    /\ heard.samples = <<1, 2>> /\ heard.done

\* The command the GUI's step has passed to the controller, if any.
SentNow ==
    IF last'.kind \in {"play_track", "toggle_play_pause",
                       "seek_preview", "seek_commit"}
         /\ last'.cmd # NoCmd
    THEN <<last'.cmd>> ELSE <<>>

\* C33: with the duration unknown seek_preview and seek_commit send
\* nothing and leave position_ms alone; seek_commit sends nothing when no
\* preview is pending; a Seek is sent only by seek_commit, and its offset
\* is below the known duration, or 0 for a duration of 0.
C33_SeekBarGuard ==
    [][ /\ (last'.kind \in {"seek_preview", "seek_commit"}
              /\ gui.duration_ms = None) =>
              (SentNow = <<>> /\ gui'.position_ms = gui.position_ms)
        /\ (last'.kind = "seek_commit" /\ gui.seek_preview_ratio = None) =>
              (SentNow = <<>> /\ gui' = gui)
        /\ \A i \in 1..Len(SentNow) : SentNow[i].c = "Seek" =>
              /\ last'.kind = "seek_commit" /\ Len(SentNow) = 1
              /\ gui.duration_ms # None /\ gui.seek_preview_ratio # None
              /\ \/ SentNow[i].ms < gui.duration_ms
                 \/ gui.duration_ms = 0 /\ SentNow[i].ms = 0 ]_vars

\* A preview at the end of the slider has been committed as a Seek to the
\* last millisecond of the track.
C33_Witness ==
    /\ last.kind = "seek_commit" /\ last.cmd = Cmd("Seek", NoPath, 3, 0)
    /\ gui.duration_ms = 4 /\ gui.position_ms = 3
    /\ gui.seek_preview_ratio = None

\* C38 as claimed: with both channels empty and the engine waiting for a
\* command, is_playing is true only if the engine has a sink that is
\* not paused.
C38_IsPlayingMeansPlaying ==
    (command_rx = <<>> /\ event_rx = <<>> /\ pc = "recv" /\ gui.is_playing) =>
        (engine.sink.live /\ ~engine.sink.paused)

\* C37: once every controller is dropped with no Shutdown sent, the
\* engine handles the commands sent before the drop in the order sent,
\* then leaves its loop and tears the session down; it never leaves the
\* loop while a command is unhandled.
C37_DropDrainsThenStops ==
    /\ [](\E n \in 0..Len(log.sent) : log.handled = SubSeq(log.sent, 1, n))
    /\ [](pc \in {"stop", "done"} =>
            (command_rx = <<>> /\ log.handled = log.sent))
    /\ [](pc = "done" => Idle(engine))
    /\ (gui.playback = "dropped" ~>
            (pc = "done" /\ Idle(engine) /\ log.handled = log.sent))

\* Two commands waited in the channel when the controller was dropped;
\* run has handled them, left the loop and stopped the session.
C37_Witness ==
    /\ gui.playback = "dropped" /\ pc = "done" /\ Idle(engine)
    /\ Len(log.batch) = 2 /\ log.batch[1].c = "PlayFile"
    /\ log.handled = log.sent
    /\ last.kind = "stop" /\ last.live

====
